---- MODULE Spec2Model ----
(***************************************************************************)
(* Thread-local slot registry of source/common/thread_local/               *)
(* thread_local_impl.cc: InstanceImpl (registry), SlotImpl (slot handle),  *)
(* the per-thread storage thread_local_data_ and the dispatchers' post     *)
(* queues.  Thread 0 is the main thread; threads 1 and 2 are worker        *)
(* threads.  Dispatcher d is the event loop run by thread d.               *)
(***************************************************************************)
EXTENDS Integers, Sequences, FiniteSets, TLC

\* ------------------------------------------------------------------ bounds
\* Client calls (allocateSlot, set, runOnAllThreads in either form) in one run
\* of Spec, and in one run of SpecReuse.
MaxCalls == 3
ReuseCalls == 5
LiveCalls == 3
GenCalls == 4
MaxHandles == IF MaxCalls > ReuseCalls THEN MaxCalls ELSE ReuseCalls

\* The threads: the main thread and two workers.
Main == 0
Workers == {1, 2}
Threads == {Main} \union Workers
Handles == 1..MaxHandles
Guards == 1..MaxCalls
NoDispatcher == -1
NoHandle == 0

\* ------------------------------------------------------------------ values
\* A ThreadLocalObjectSharedPtr.  Null is the empty shared pointer; the object
\* an initializer of handle h produces for dispatcher d is tagged (h, d); u
\* counts the updates applied to it.
Null == [h |-> NoHandle, d |-> NoDispatcher, u |-> 0]
InitializeCb(h, d) == [h |-> h, d |-> d, u |-> 0]
UpdateCb(v) == IF v = Null THEN Null ELSE [v EXCEPT !.u = 1]

\* ------------------------------------------------------------------ callbacks
\* An Event::PostCb.  kind says which lambda of the source it is:
\*   "reg"      registerThread's lambda                      (d)
\*   "set"      SlotImpl::set's lambda, wrapped              (h, idx, d)
\*   "upd"      SlotImpl::runOnAllThreads(UpdateCb), wrapped (h; reads this->index_)
\*   "clear"    removeSlot's lambda                          (idx)
\*   "guard"    [cb_guard] { (*cb_guard)(); }                (g)
\*   "complete" all_threads_complete_cb                      (g)
Cb(kind, h, idx, d, g) == [kind |-> kind, h |-> h, idx |-> idx, d |-> d, g |-> g]
NoCb == Cb("none", NoHandle, 0, NoDispatcher, 0)
Wrapped(cb) == cb.kind \in {"set", "upd"}

VARIABLES
  state_,                   \* InstanceImpl::state_
  main_thread_dispatcher_,  \* InstanceImpl::main_thread_dispatcher_
  registered_threads_,      \* InstanceImpl::registered_threads_ (a std::list)
  slots_,                   \* InstanceImpl::slots_: handle at each index, NoHandle = nullptr
  free_slot_indexes_,       \* InstanceImpl::free_slot_indexes_ (a std::list)
  data_,                    \* thread_local_data_.data_ of each thread
  dispatcher_,              \* thread_local_data_.dispatcher_ of each thread
  queue,                    \* callbacks posted to each dispatcher, in post order
  hstate,                   \* each handle: "unalloc", "live", "awaiting", "removing", "dead"
  index_,                   \* SlotImpl::index_
  use_count,                \* use count of SlotImpl::still_alive_
  ready_to_destroy_,        \* SlotImpl::ready_to_destroy_
  guards,                   \* each cb_guard: wrapped callback, use count
  mainpc,                   \* where the main thread is inside a blocking/broadcast call
  fatal,                    \* the ASSERT that failed and ended the process, "none" while it runs
  exited,                   \* threads that have run shutdownThread
  \* history variables (observations, never read by the program)
  destroyedIn,              \* lifecycle state in which each handle's destructor ran
  lastVal,                  \* per thread, the value last written through each handle
  freedAt,                  \* per index, the serial number of its last removal
  released,                 \* per thread, the indexes shutdownThread reset, in order
  posted,                   \* per guard, how often its completion was posted
  executed,                 \* per guard, the threads that executed their copy of cb
  targets,                  \* per guard, the threads the broadcast addressed
  completedBy,              \* per guard, the threads that ran the completion, in order
  ncalls                    \* client calls made so far (bounding the run)

vars == <<state_, main_thread_dispatcher_, registered_threads_, slots_,
          free_slot_indexes_, data_, dispatcher_, queue, hstate, index_,
          use_count, ready_to_destroy_, guards, mainpc, fatal, exited,
          destroyedIn, lastVal, freedAt, released, posted, executed, targets,
          completedBy, ncalls>>

registry == <<state_, main_thread_dispatcher_, registered_threads_, slots_,
              free_slot_indexes_>>
history == <<destroyedIn, lastVal, freedAt, released, posted, executed, targets,
             completedBy>>

Idle == [op |-> "idle", h |-> NoHandle, cb |-> NoCb]

Init ==
  /\ state_ = "Initializing"
  /\ main_thread_dispatcher_ = NoDispatcher
  /\ registered_threads_ = <<>>
  /\ slots_ = <<>>
  /\ free_slot_indexes_ = <<>>
  /\ data_ = [t \in Threads |-> <<>>]
  /\ dispatcher_ = [t \in Threads |-> NoDispatcher]
  /\ queue = [t \in Threads |-> <<>>]
  /\ hstate = [h \in Handles |-> "unalloc"]
  /\ index_ = [h \in Handles |-> 0]
  /\ use_count = [h \in Handles |-> 0]
  /\ ready_to_destroy_ = [h \in Handles |-> FALSE]
  /\ guards = [g \in Guards |-> [cb |-> NoCb, refs |-> 0]]
  /\ mainpc = Idle
  /\ fatal = "none"
  /\ exited = [t \in Threads |-> FALSE]
  /\ destroyedIn = [h \in Handles |-> "none"]
  /\ lastVal = [t \in Threads |-> [h \in Handles |-> Null]]
  /\ freedAt = [i \in 0..(MaxHandles - 1) |-> 0]
  /\ released = [t \in Threads |-> <<>>]
  /\ posted = [g \in Guards |-> 0]
  /\ executed = [g \in Guards |-> {}]
  /\ targets = [g \in Guards |-> {}]
  /\ completedBy = [g \in Guards |-> <<>>]
  /\ ncalls = 0

\* ------------------------------------------------------------------ storage
\* Mutant of SetThreadLocal: the vector is resized one cell too far.
SetThreadLocal_Oversize(data, index, object) ==
  LET resized == IF Len(data) <= index
                 THEN data \o [k \in 1..(index + 2 - Len(data)) |-> Null]
                 ELSE data
  IN [resized EXCEPT ![index + 1] = object]

\* InstanceImpl::setThreadLocal: resize to index + 1 when too short, then store.
SetThreadLocal(data, index, object) ==
  LET resized == IF Len(data) <= index
                 THEN data \o [k \in 1..(index + 1 - Len(data)) |-> Null]
                 ELSE data
  IN [resized EXCEPT ![index + 1] = object]

\* SlotImpl::currentThreadRegistered, on a thread whose data_ is data.
CurrentThreadRegistered(data, index) == Len(data) > index

\* SlotImpl::get after its ASSERT: thread_local_data_.data_[index_].
Get(data, index) == data[index + 1]

\* Mutant of ClearSlot: the cell is left as it is.
ClearSlot_Never(data, index) == data

\* Mutant of ClearSlot: the cell after the freed one is cleared.
ClearSlot_OffByOne(data, index) ==
  IF index + 1 < Len(data) THEN [data EXCEPT ![index + 2] = Null] ELSE data

\* The lambda removeSlot broadcasts: clear the cell when the thread has it.
ClearSlot(data, index) ==
  IF index < Len(data) THEN [data EXCEPT ![index + 1] = Null] ELSE data

\* Mutant of ResetOrder: begin() to end().
ResetOrder_Forward(n) == [k \in 1..n |-> k - 1]

\* The order in which shutdownThread resets the cells of a vector of n cells:
\* rbegin() to rend(), that is indexes n-1, n-2, ..., 0.
ResetOrder(n) == [k \in 1..n |-> n - k]

\* ------------------------------------------------------------------ registry helpers
IsRegistered(d) == \E k \in 1..Len(registered_threads_) : registered_threads_[k] = d
RegisteredSet == {d \in Threads : IsRegistered(d)}
NumRegistered == Len(registered_threads_)

InFreeList(i) == \E k \in 1..Len(free_slot_indexes_) : free_slot_indexes_[k] = i

\* Mutant of AllocIndex: the most recently freed index is taken (back, not front).
AllocIndex_Lifo ==
  IF free_slot_indexes_ = <<>> THEN Len(slots_)
  ELSE free_slot_indexes_[Len(free_slot_indexes_)]

\* allocateSlot: the index the new handle is bound to.
AllocIndex ==
  IF free_slot_indexes_ = <<>> THEN Len(slots_) ELSE Head(free_slot_indexes_)

\* Mutant of FreeAfterAlloc: the index is read but not popped.
FreeAfterAlloc_NoPop == free_slot_indexes_

\* allocateSlot: the free list after the front index is taken (pop_front).
FreeAfterAlloc == Tail(free_slot_indexes_)

\* The handle allocateSlot constructs next (handles are numbered by allocation).
NextHandle == Cardinality({h \in Handles : hstate[h] # "unalloc"}) + 1

\* for (dispatcher : registered_threads_) dispatcher.post(F(dispatcher))
PostAll(F(_)) ==
  [d \in Threads |-> IF IsRegistered(d) THEN Append(queue[d], F(d)) ELSE queue[d]]

\* An ASSERT has failed: the process is gone.
aborted == fatal # "none"

\* The main thread is outside every call.
MainFree == ~aborted /\ mainpc = Idle

\* Mutant of NotShutdown: the state is not checked.
NotShutdown_Unchecked == TRUE

\* ASSERT(state_ != State::Shutdown), the precondition of allocateSlot,
\* registerThread, SlotImpl::set and both forms of runOnAllThreads.
NotShutdown == state_ # "Shutdown"

\* A precondition ASSERT fails: the call ends the process where it stands.
FailedPrecondition ==
  /\ fatal' = "precondition"
  /\ UNCHANGED <<registry, data_, dispatcher_, queue, hstate, index_, use_count,
                 ready_to_destroy_, guards, mainpc, exited, history, ncalls>>

\* ------------------------------------------------------------------ liveness token
\* Mutant of DeleterSignals: the deleter never signals.
DeleterSignals_Never == FALSE

\* The deleter of still_alive_ signals only in the Running state (line 52).
DeleterSignals == state_ = "Running"

\* Mutants of MustAwait: the destructor never waits; the destructor always waits.
MustAwait_Never == FALSE
MustAwait_Always == TRUE

\* ~SlotImpl waits only in the Running state (line 65).
MustAwait == state_ = "Running"

\* Mutant of AwaitCondition: the wait returns at once.
AwaitCondition_Always(h) == TRUE

\* The condition ~SlotImpl awaits (line 67).
AwaitCondition(h) == ready_to_destroy_[h]

\* Mutant of RemoveIsNoop: removal is carried out in every state.
RemoveIsNoop_Never == FALSE

\* removeSlot returns at once in the Shutdown state (line 140).
RemoveIsNoop == state_ = "Shutdown"

\* Mutant of TokenCount: wrapCallback does not copy the token.
TokenCount_NoCopy(h, gain, loss) == [use_count EXCEPT ![h] = @ - loss]

\* use_count and ready_to_destroy_ after handle h's token gains `gain` copies and
\* then loses `loss`; the deleter runs when the count reaches zero.
TokenCount(h, gain, loss) == [use_count EXCEPT ![h] = @ + gain - loss]
TokenReady(h, gain, loss) ==
  IF loss > 0 /\ use_count[h] + gain - loss = 0 /\ DeleterSignals
  THEN [ready_to_destroy_ EXCEPT ![h] = TRUE]
  ELSE ready_to_destroy_

\* ------------------------------------------------------------------ callback bodies
\* Mutant of CapturedDispatcher: every lambda sees the first registered dispatcher.
CapturedDispatcher_First(d) == registered_threads_[1]

\* The dispatcher a set lambda captured for the loop's dispatcher d (&dispatcher).
CapturedDispatcher(d) == d

\* Mutant of CompletionDispatcher: the completion goes to a worker's dispatcher.
CompletionDispatcher_Worker ==
  IF registered_threads_ = <<>> THEN main_thread_dispatcher_ ELSE registered_threads_[1]

\* The dispatcher cb_guard's deleter posts the completion to (line 182).
CompletionDispatcher == main_thread_dispatcher_

\* What executing callback cb on thread t does to the thread's storage.
ExecBody(t, cb) ==
  CASE cb.kind = "reg" ->
         /\ dispatcher_' = [dispatcher_ EXCEPT ![t] = cb.d]
         /\ UNCHANGED <<data_, fatal, lastVal, completedBy>>
    [] cb.kind = "set" ->
         /\ data_' = [data_ EXCEPT ![t] =
                        SetThreadLocal(@, cb.idx, InitializeCb(cb.h, cb.d))]
         /\ lastVal' = [lastVal EXCEPT ![t][cb.h] = InitializeCb(cb.h, cb.d)]
         /\ UNCHANGED <<dispatcher_, fatal, completedBy>>
    [] cb.kind = "upd" ->
         \* setThreadLocal(index_, cb(get())): get() ASSERTs currentThreadRegistered.
         \* The lambda captured `this`: once the handle's destructor has returned
         \* it reads freed memory, and the process either goes on with what the
         \* memory still holds or crashes.
         \/ /\ hstate[cb.h] = "dead"
            /\ fatal' = "use after free"
            /\ UNCHANGED <<data_, dispatcher_, lastVal, completedBy>>
         \/ IF CurrentThreadRegistered(data_[t], index_[cb.h])
            THEN LET v == UpdateCb(Get(data_[t], index_[cb.h])) IN
                 /\ data_' = [data_ EXCEPT ![t] = SetThreadLocal(@, index_[cb.h], v)]
                 /\ lastVal' = [lastVal EXCEPT ![t][cb.h] = v]
                 /\ UNCHANGED <<dispatcher_, fatal, completedBy>>
            ELSE /\ fatal' = "get"
                 /\ UNCHANGED <<data_, dispatcher_, lastVal, completedBy>>
    [] cb.kind = "clear" ->
         /\ data_' = [data_ EXCEPT ![t] = ClearSlot(@, cb.idx)]
         /\ UNCHANGED <<dispatcher_, fatal, lastVal, completedBy>>
    [] cb.kind = "complete" ->
         /\ completedBy' = [completedBy EXCEPT ![cb.g] = Append(@, t)]
         /\ UNCHANGED <<data_, dispatcher_, fatal, lastVal>>
    [] OTHER ->
         UNCHANGED <<data_, dispatcher_, fatal, lastVal, completedBy>>

\* The callback a posted callback really runs: a guard lambda invokes *cb_guard.
Inner(cb) == IF cb.kind = "guard" THEN guards[cb.g].cb ELSE cb

\* ------------------------------------------------------------------ dispatchers
\* A dispatcher takes the oldest posted callback, runs it to its end and destroys
\* it: the still_alive_ or cb_guard copy it captured is released, and the last
\* release runs the deleter.  The body touches only the thread's own storage, so
\* the release is the one point at which other threads can see the callback end.
Run(t) ==
  /\ ~aborted /\ ~exited[t]
  /\ queue[t] # <<>>
  /\ t = Main => mainpc = Idle
  /\ LET cb == Head(queue[t])
         popped == [queue EXCEPT ![t] = Tail(@)] IN
     /\ ExecBody(t, Inner(cb))
     /\ IF aborted'
        THEN UNCHANGED <<queue, guards, posted, executed, use_count, ready_to_destroy_>>
        ELSE IF cb.kind = "guard"
        THEN LET last == guards[cb.g].refs = 1
                 h == guards[cb.g].cb.h IN
             /\ executed' = [executed EXCEPT ![cb.g] = @ \union {t}]
             /\ guards' = [guards EXCEPT ![cb.g].refs = @ - 1]
             /\ queue' = IF last
                         THEN [popped EXCEPT ![CompletionDispatcher] =
                                 Append(@, Cb("complete", NoHandle, 0, NoDispatcher, cb.g))]
                         ELSE popped
             /\ posted' = IF last THEN [posted EXCEPT ![cb.g] = @ + 1] ELSE posted
             /\ use_count' = IF last THEN TokenCount(h, 0, 1) ELSE use_count
             /\ ready_to_destroy_' = IF last THEN TokenReady(h, 0, 1)
                                     ELSE ready_to_destroy_
        ELSE IF Wrapped(cb)
        THEN /\ queue' = popped
             /\ use_count' = TokenCount(cb.h, 0, 1)
             /\ ready_to_destroy_' = TokenReady(cb.h, 0, 1)
             /\ UNCHANGED <<guards, posted, executed>>
        ELSE /\ queue' = popped
             /\ UNCHANGED <<guards, posted, executed, use_count, ready_to_destroy_>>
  /\ UNCHANGED <<registry, hstate, index_, mainpc, exited, destroyedIn, freedAt,
                 released, targets, ncalls>>

\* The deleter of still_alive_ captured `this` (line 42).  When the last copy of
\* the token of a handle destroyed during Initializing is released in the
\* Running state, the deleter locks shutdown_mutex_ and sets ready_to_destroy_
\* in freed memory: the process either goes on or crashes.
DeleterUseAfterFree ==
  /\ ~aborted
  /\ \E h \in Handles :
       hstate[h] = "dead" /\ destroyedIn[h] # "Running" /\ ready_to_destroy_[h]
  /\ fatal' = "use after free"
  /\ UNCHANGED <<registry, data_, dispatcher_, queue, hstate, index_, use_count,
                 ready_to_destroy_, guards, mainpc, exited, history, ncalls>>

\* ------------------------------------------------------------------ registration
\* registerThread(dispatcher, true): the main thread binds its own dispatcher.
RegisterMainThread ==
  /\ MainFree
  /\ main_thread_dispatcher_ = NoDispatcher
  /\ IF NotShutdown
     THEN /\ main_thread_dispatcher_' = Main
          /\ dispatcher_' = [dispatcher_ EXCEPT ![Main] = Main]
          /\ UNCHANGED <<state_, registered_threads_, slots_, free_slot_indexes_,
                         data_, queue, hstate, index_, use_count,
                         ready_to_destroy_, guards, mainpc, fatal, exited,
                         history, ncalls>>
     ELSE FailedPrecondition

\* registerThread(dispatcher, false): a worker's dispatcher joins the set.
RegisterWorkerThread(d) ==
  /\ MainFree
  /\ ~IsRegistered(d)
  /\ d = NumRegistered + 1      \* workers are interchangeable: number them by registration
  /\ IF NotShutdown
     THEN /\ registered_threads_' = Append(registered_threads_, d)
          /\ queue' = [queue EXCEPT ![d] = Append(@, Cb("reg", NoHandle, 0, d, 0))]
          /\ UNCHANGED <<state_, main_thread_dispatcher_, slots_,
                         free_slot_indexes_, data_, dispatcher_, hstate, index_,
                         use_count, ready_to_destroy_, guards, mainpc, fatal,
                         exited, history, ncalls>>
     ELSE FailedPrecondition

\* ------------------------------------------------------------------ allocation
\* allocateSlot, with the SlotImpl constructor: a fresh token held by the handle.
AllocateSlot ==
  /\ MainFree
  /\ IF NotShutdown
     THEN /\ LET h == NextHandle
                 idx == AllocIndex IN
             /\ IF free_slot_indexes_ = <<>>
                THEN /\ slots_' = Append(slots_, h)
                     /\ UNCHANGED free_slot_indexes_
                ELSE /\ idx < Len(slots_)
                     /\ free_slot_indexes_' = FreeAfterAlloc
                     /\ slots_' = [slots_ EXCEPT ![idx + 1] = h]
             /\ hstate' = [hstate EXCEPT ![h] = "live"]
             /\ index_' = [index_ EXCEPT ![h] = idx]
             /\ use_count' = [use_count EXCEPT ![h] = 1]
             /\ ready_to_destroy_' = [ready_to_destroy_ EXCEPT ![h] = FALSE]
          /\ ncalls' = ncalls + 1
          /\ UNCHANGED <<state_, main_thread_dispatcher_, registered_threads_,
                         data_, dispatcher_, queue, guards, mainpc, fatal, exited,
                         history>>
     ELSE FailedPrecondition

\* ------------------------------------------------------------------ slot operations
\* SlotImpl::set: post a wrapped lambda to every registered dispatcher, then
\* store the main thread's value.
Set(h) ==
  /\ MainFree
  /\ hstate[h] = "live"
  /\ IF NotShutdown
     THEN /\ main_thread_dispatcher_ # NoDispatcher
          /\ queue' = PostAll(LAMBDA d :
                                Cb("set", h, index_[h], CapturedDispatcher(d), 0))
          /\ use_count' = TokenCount(h, NumRegistered, 0)
          /\ data_' = [data_ EXCEPT ![Main] =
                         SetThreadLocal(@, index_[h],
                                        InitializeCb(h, main_thread_dispatcher_))]
          /\ lastVal' = [lastVal EXCEPT ![Main][h] =
                           InitializeCb(h, main_thread_dispatcher_)]
          /\ ncalls' = ncalls + 1
          /\ UNCHANGED <<registry, dispatcher_, hstate, index_, ready_to_destroy_,
                         guards, mainpc, fatal, exited, destroyedIn, freedAt,
                         released, posted, executed, targets, completedBy>>
     ELSE FailedPrecondition

\* Mutant of PostThenRunOnMain: the loop over registered_threads_ is skipped.
PostThenRunOnMain_MainOnly(cb, dtor) ==
  /\ queue' = queue
  /\ mainpc' = [op |-> "bcast", h |-> dtor, cb |-> cb]

\* InstanceImpl::runOnAllThreads(cb), first half: post cb to every registered
\* dispatcher.  The main thread then still has to run cb itself.
PostThenRunOnMain(cb, dtor) ==
  /\ queue' = PostAll(LAMBDA d : cb)
  /\ mainpc' = [op |-> "bcast", h |-> dtor, cb |-> cb]

\* SlotImpl::runOnAllThreads(UpdateCb): the update lambda goes through
\* runOnAllThreads(PostCb), that is wrapCallback, then the registry's
\* fire-and-forget broadcast.  The wrapped temporary holds one token copy.
SlotRunOnAllThreads(h) ==
  /\ MainFree
  /\ hstate[h] = "live"
  /\ IF NotShutdown
     THEN /\ PostThenRunOnMain(Cb("upd", h, 0, NoDispatcher, 0), NoHandle)
          /\ use_count' = TokenCount(h, NumRegistered + 1, 0)
          /\ ncalls' = ncalls + 1
          /\ UNCHANGED <<registry, data_, dispatcher_, hstate, index_,
                         ready_to_destroy_, guards, fatal, exited, history>>
     ELSE FailedPrecondition

\* InstanceImpl::runOnAllThreads(cb), second half: cb() on the main thread; the
\* call returns and its callback temporary is destroyed.  When the call was
\* removeSlot's, ~SlotImpl returns with it.
RunOnMain ==
  /\ ~aborted
  /\ mainpc.op = "bcast"
  /\ ExecBody(Main, mainpc.cb)
  /\ IF Wrapped(mainpc.cb)
     THEN /\ use_count' = TokenCount(mainpc.cb.h, 0, 1)
          /\ ready_to_destroy_' = TokenReady(mainpc.cb.h, 0, 1)
     ELSE UNCHANGED <<use_count, ready_to_destroy_>>
  /\ hstate' = IF mainpc.h # NoHandle THEN [hstate EXCEPT ![mainpc.h] = "dead"]
               ELSE hstate
  /\ mainpc' = Idle
  /\ UNCHANGED <<registry, queue, index_, guards, exited, destroyedIn,
                 freedAt, released, posted, executed, targets, ncalls>>

\* The guard a broadcast with completion creates next.
NextGuard == Cardinality({g \in Guards : guards[g].cb # NoCb}) + 1

\* SlotImpl::runOnAllThreads(UpdateCb, complete_cb): the update lambda goes
\* through runOnAllThreads(PostCb, PostCb), that is wrapCallback, then the registry's
\* broadcast with completion: cb() on the main thread, a cb_guard holding a copy
\* of cb, one guard lambda posted per registered dispatcher; the local cb_guard
\* is dropped on return, which posts the completion when nothing was posted.
SlotRunOnAllThreadsComplete(h) ==
  /\ MainFree
  /\ hstate[h] = "live"
  /\ IF NotShutdown
     THEN /\ main_thread_dispatcher_ # NoDispatcher
          /\ LET g == NextGuard
                 cb == Cb("upd", h, 0, NoDispatcher, 0)
                 n == NumRegistered IN
             /\ ExecBody(Main, cb)
             /\ IF aborted'
                THEN UNCHANGED <<queue, guards, use_count, posted, executed, targets>>
                ELSE /\ guards' = [guards EXCEPT ![g] = [cb |-> cb, refs |-> n]]
                     /\ queue' =
                          IF n = 0
                          THEN [queue EXCEPT ![CompletionDispatcher] =
                                  Append(@, Cb("complete", NoHandle, 0, NoDispatcher, g))]
                          ELSE PostAll(LAMBDA d :
                                         Cb("guard", NoHandle, 0, NoDispatcher, g))
                     /\ posted' = IF n = 0 THEN [posted EXCEPT ![g] = @ + 1]
                                  ELSE posted
                     /\ use_count' = TokenCount(h, IF n = 0 THEN 0 ELSE 1, 0)
                     /\ executed' = [executed EXCEPT ![g] = {Main}]
                     /\ targets' = [targets EXCEPT ![g] = {Main} \union RegisteredSet]
          /\ ncalls' = ncalls + 1
          /\ UNCHANGED <<registry, hstate, index_, ready_to_destroy_, mainpc,
                         exited, destroyedIn, freedAt, released>>
     ELSE FailedPrecondition

\* ------------------------------------------------------------------ destruction
\* Removals that have been carried out (removeSlot past its Shutdown check).
NumRemoved ==
  Cardinality({h \in Handles : hstate[h] \in {"removing", "dead"}
                               /\ destroyedIn[h] \in {"Initializing", "Running"}})

\* Mutant of SlotsAfterRemove: the slot keeps its pointer.
SlotsAfterRemove_Keep(h) == slots_

\* removeSlot: slots_[index] = nullptr (line 145).
SlotsAfterRemove(h) == [slots_ EXCEPT ![index_[h] + 1] = NoHandle]

\* InstanceImpl::removeSlot, called by ~SlotImpl as its last statement.
RemoveSlot(h) ==
  IF RemoveIsNoop
  THEN /\ hstate' = [hstate EXCEPT ![h] = "dead"]
       /\ mainpc' = Idle
       /\ UNCHANGED <<slots_, free_slot_indexes_, queue, freedAt, fatal>>
  ELSE IF InFreeList(index_[h])
  THEN /\ fatal' = "free list"
       /\ UNCHANGED <<slots_, free_slot_indexes_, queue, freedAt, hstate, mainpc>>
  ELSE /\ slots_' = SlotsAfterRemove(h)
       /\ free_slot_indexes_' = Append(free_slot_indexes_, index_[h])
       /\ freedAt' = [freedAt EXCEPT ![index_[h]] = NumRemoved + 1]
       /\ PostThenRunOnMain(Cb("clear", NoHandle, index_[h], NoDispatcher, 0), h)
       /\ hstate' = [hstate EXCEPT ![h] = "removing"]
       /\ UNCHANGED fatal

\* ~SlotImpl up to its wait: still_alive_.reset(), then either wait (Running) or
\* go straight on to removeSlot.
DestroyBegin(h) ==
  /\ MainFree
  /\ hstate[h] = "live"
  /\ destroyedIn' = [destroyedIn EXCEPT ![h] = state_]
  /\ use_count' = TokenCount(h, 0, 1)
  /\ ready_to_destroy_' = TokenReady(h, 0, 1)
  /\ IF MustAwait
     THEN /\ hstate' = [hstate EXCEPT ![h] = "awaiting"]
          /\ mainpc' = [op |-> "await", h |-> h, cb |-> NoCb]
          /\ UNCHANGED <<slots_, free_slot_indexes_, queue, freedAt, fatal>>
     ELSE RemoveSlot(h)
  /\ UNCHANGED <<state_, main_thread_dispatcher_, registered_threads_, data_,
                 dispatcher_, index_, guards, exited, lastVal, released,
                 posted, executed, targets, completedBy, ncalls>>

\* ~SlotImpl from its wait on: shutdown_mutex_.Await(ready_to_destroy_) returns,
\* then removeSlot.
DestroyAwait ==
  /\ ~aborted
  /\ mainpc.op = "await"
  /\ AwaitCondition(mainpc.h)
  /\ RemoveSlot(mainpc.h)
  /\ UNCHANGED <<state_, main_thread_dispatcher_, registered_threads_, data_,
                 dispatcher_, index_, use_count, ready_to_destroy_, guards,
                 exited, destroyedIn, lastVal, released, posted, executed, targets,
                 completedBy, ncalls>>

\* ------------------------------------------------------------------ lifecycle
\* Mutant of CanStart: startGlobalThreading in any state.
CanStart_Any == TRUE

\* startGlobalThreading's precondition (line 200).
CanStart == state_ = "Initializing"

StartGlobalThreading ==
  /\ MainFree
  /\ CanStart
  /\ state_' = "Running"
  /\ UNCHANGED <<main_thread_dispatcher_, registered_threads_, slots_,
                 free_slot_indexes_, data_, dispatcher_, queue, hstate,
                 index_, use_count, ready_to_destroy_, guards, mainpc, fatal,
                 exited, history, ncalls>>

ShutdownGlobalThreading ==
  /\ MainFree
  /\ state_ # "Shutdown"
  /\ state_' = "Shutdown"
  /\ UNCHANGED <<main_thread_dispatcher_, registered_threads_, slots_,
                 free_slot_indexes_, data_, dispatcher_, queue, hstate,
                 index_, use_count, ready_to_destroy_, guards, mainpc, fatal,
                 exited, history, ncalls>>

\* shutdownThread on thread t: reset every cell, last to first, then clear.
ShutdownThread(t) ==
  /\ ~aborted /\ ~exited[t]
  /\ t = Main \/ IsRegistered(t)
  /\ state_ = "Shutdown"
  /\ t = Main => mainpc = Idle
  /\ released' = [released EXCEPT ![t] = ResetOrder(Len(data_[t]))]
  /\ data_' = [data_ EXCEPT ![t] = <<>>]
  /\ exited' = [exited EXCEPT ![t] = TRUE]
  /\ UNCHANGED <<registry, dispatcher_, queue, hstate, index_, use_count,
                 ready_to_destroy_, guards, mainpc, fatal, destroyedIn, lastVal,
                 freedAt, posted, executed, targets, completedBy, ncalls>>

\* ------------------------------------------------------------------ specification
\* The steps other than client calls, in a run in which the workers of ws may be
\* registered.
Step(ws) ==
  \/ RegisterMainThread
  \/ \E d \in ws : RegisterWorkerThread(d)
  \/ RunOnMain
  \/ \E h \in Handles : DestroyBegin(h)
  \/ DestroyAwait
  \/ StartGlobalThreading
  \/ ShutdownGlobalThreading
  \/ \E t \in Threads : ShutdownThread(t)
  \/ \E t \in Threads : Run(t)
  \/ DeleterUseAfterFree

\* Every operation, two workers, at most MaxCalls client calls.
Next ==
  \/ Step(Workers)
  \/ ncalls < MaxCalls /\ AllocateSlot
  \/ ncalls < MaxCalls /\ \E h \in Handles : Set(h)
  \/ ncalls < MaxCalls /\ \E h \in Handles : SlotRunOnAllThreads(h)
  \/ ncalls < MaxCalls /\ \E h \in Handles : SlotRunOnAllThreadsComplete(h)

Spec == Init /\ [][Next]_vars

\* Longer runs of allocation, set and destruction with one worker, for the
\* claims about index reuse: no slot broadcasts are made.
NextReuse ==
  \/ Step({1})
  \/ ncalls < ReuseCalls /\ AllocateSlot
  \/ ncalls < ReuseCalls /\ \E h \in Handles : Set(h)

SpecReuse == Init /\ [][NextReuse]_vars

\* Runs of allocation, set, update broadcast and destruction with one worker,
\* long enough for an index to be reused and read through its new handle.
NextGen ==
  \/ Step({1})
  \/ ncalls < GenCalls /\ AllocateSlot
  \/ ncalls < GenCalls /\ \E h \in Handles : Set(h)
  \/ ncalls < GenCalls /\ \E h \in Handles : SlotRunOnAllThreads(h)

SpecGen == Init /\ [][NextGen]_vars

\* Runs in which every worker's dispatcher keeps running the callbacks posted to
\* it and the main thread goes on with the call it is in: allocation, set and
\* broadcasts with completion, two workers, at most LiveCalls client calls.
NextLive ==
  \/ Step(Workers)
  \/ ncalls < LiveCalls /\ AllocateSlot
  \/ ncalls < LiveCalls /\ \E h \in Handles : Set(h)
  \/ ncalls < LiveCalls /\ \E h \in Handles : SlotRunOnAllThreadsComplete(h)

SpecLive ==
  /\ Init /\ [][NextLive]_vars
  /\ \A w \in Workers : WF_vars(Run(w))
  /\ WF_vars(DestroyAwait)
  /\ WF_vars(RunOnMain)

\* ------------------------------------------------------------------ observations
\* A wrapped callback of handle h is queued on some dispatcher (a guard lambda
\* counts through the wrapped callback its cb_guard holds).
InFlight(h) ==
  \E t \in Threads : \E k \in 1..Len(queue[t]) :
     Wrapped(Inner(queue[t][k])) /\ Inner(queue[t][k]).h = h

\* The number of dispatchers on which a wrapped callback of h is queued.
InFlightOn(h) ==
  {t \in Threads : \E k \in 1..Len(queue[t]) :
     Wrapped(Inner(queue[t][k])) /\ Inner(queue[t][k]).h = h}

\* The handle is allocated and its destructor has not returned.
Live(h) == hstate[h] \in {"live", "awaiting", "removing"}

\* The last destroyed handle that owned index i.
PrevOwner(i) ==
  CHOOSE p \in Handles :
    /\ hstate[p] = "dead" /\ index_[p] = i
    /\ \A q \in Handles : (hstate[q] = "dead" /\ index_[q] = i) => q <= p

\* No earlier handle was bound to h's index.
FirstOwner(h) == \A q \in Handles : (q < h /\ hstate[q] # "unalloc") => index_[q] # index_[h]

\* What thread t holds at index i: the empty pointer when it has no such cell.
Cell(t, i) == IF CurrentThreadRegistered(data_[t], i) THEN Get(data_[t], i) ELSE Null

\* This step is allocateSlot constructing handle h.
Allocates(h) == hstate[h] = "unalloc" /\ hstate'[h] = "live"

\* ------------------------------------------------------------------ claims
\* C1 as stated: whenever allocateSlot hands out a freed index, in whatever
\* lifecycle state, the token of the handle that last owned the index has no
\* reference left and no wrapped callback of that handle is still queued.
C1_ReuseOnlyAfterTokenZero ==
  [][\A h \in Handles :
       (Allocates(h) /\ InFreeList(index_'[h])) =>
          /\ use_count[PrevOwner(index_'[h])] = 0
          /\ ~InFlight(PrevOwner(index_'[h]))]_vars

\* C1 amended: whenever allocateSlot hands out a freed index whose last owner
\* was destroyed while the registry was Running, that owner's token has no
\* reference left and no wrapped callback of it is still queued.
C1_ReuseAfterRunningDestroy ==
  [][\A h \in Handles :
       (/\ Allocates(h)
        /\ InFreeList(index_'[h])
        /\ destroyedIn[PrevOwner(index_'[h])] = "Running") =>
          /\ use_count[PrevOwner(index_'[h])] = 0
          /\ ~InFlight(PrevOwner(index_'[h]))]_vars

\* C1 witness: a live handle holds an index whose earlier owner was destroyed
\* while Running after its set callback had run on a worker.
C1_Witness ==
  \E h \in Handles, p \in Handles :
    /\ p < h /\ hstate[h] = "live" /\ hstate[p] = "dead"
    /\ index_[h] = index_[p]
    /\ destroyedIn[p] = "Running"
    /\ \E w \in Workers : lastVal[w][p] # Null

\* C2: no two handles that are allocated and not yet destroyed hold the same
\* index.
C2_LiveIndexesDistinct ==
  \A h1 \in Handles, h2 \in Handles :
    (h1 # h2 /\ Live(h1) /\ Live(h2)) => index_[h1] # index_[h2]

\* C2 witness: two live handles, one of them on a reused index.
C2_Witness ==
  \E h1 \in Handles, h2 \in Handles, p \in Handles :
    /\ h1 # h2 /\ hstate[h1] = "live" /\ hstate[h2] = "live"
    /\ hstate[p] = "dead" /\ index_[p] = index_[h1]

\* C3: a handle destroyed while Running is still bound to its slot (index not
\* freed) for as long as its destructor waits, and once removeSlot has been
\* entered or the destructor has returned, no wrapped callback of the handle is
\* queued anywhere and its token has no reference left.
C3_RunningDestroyWaits ==
  \A h \in Handles :
    /\ (hstate[h] = "awaiting") =>
          /\ slots_[index_[h] + 1] = h
          /\ ~InFreeList(index_[h])
    /\ (destroyedIn[h] = "Running" /\ hstate[h] \in {"removing", "dead"}) =>
          /\ ~InFlight(h)
          /\ use_count[h] = 0

\* C3 witness: the destructor is blocked in the Running state while wrapped
\* callbacks of its handle are queued on both workers.
C3_Witness ==
  \E h \in Handles :
    /\ state_ = "Running" /\ hstate[h] = "awaiting"
    /\ ~ready_to_destroy_[h]
    /\ InFlightOn(h) = Workers

\* C4: a destructor that starts while the registry is Initializing or Shutdown
\* never enters the wait: in the step in which it releases its token it goes on
\* to removeSlot, however many wrapped callbacks are queued; only a Running
\* registry has a waiting destructor, and the main thread's half of removeSlot's
\* broadcast can always be taken.
C4_NoWaitOutsideRunning ==
  /\ [][\A h \in Handles :
          (hstate[h] = "live" /\ hstate'[h] # "live" /\ state_ # "Running") =>
             hstate'[h] \in {"removing", "dead"}]_vars
  /\ [](\A h \in Handles : hstate[h] = "awaiting" => state_ = "Running")
  /\ []((mainpc.op = "bcast" /\ ~aborted) => ENABLED RunOnMain)

\* C4 witness: a destructor has returned in the Shutdown state while wrapped
\* callbacks of its handle are still queued on a worker.
C4_Witness ==
  \E h \in Handles :
    /\ hstate[h] = "dead" /\ destroyedIn[h] = "Shutdown"
    /\ InFlight(h)

\* C5: for every broadcast with completion, the completion is posted at most
\* once, it is posted exactly when the last copy of the guard has been released,
\* by then the main thread and every worker registered at the call have executed
\* their copy of cb, and only the main thread ever runs it, at most once.
C5_CompletionOnceAfterAll ==
  \A g \in Guards :
    guards[g].cb # NoCb =>
      /\ posted[g] <= 1
      /\ (posted[g] = 1) <=> (guards[g].refs = 0)
      /\ posted[g] = 1 => executed[g] = targets[g]
      /\ Main \in executed[g]
      /\ completedBy[g] \in {<<>>, <<Main>>}
      /\ Len(completedBy[g]) <= posted[g]

\* C5 witness: a broadcast addressed to the main thread and both workers has
\* had its completion run.
C5_Witness ==
  \E g \in Guards :
    /\ targets[g] = Threads
    /\ completedBy[g] = <<Main>>

\* The head of dispatcher t's queue is a set lambda of handle h and this step
\* runs it.
RunsSetOf(t, h) ==
  /\ queue[t] # <<>>
  /\ Head(queue[t]).kind = "set" /\ Head(queue[t]).h = h
  /\ Run(t)

\* C6: the step that is set(init) on handle h, its precondition met, leaves the
\* main thread's get() equal to init(main dispatcher); the step in which a
\* worker runs the lambda set posted to it leaves that worker's get() equal to
\* the value init produces for that worker's own dispatcher.
C6_SetReachesEveryThread ==
  [][\A h \in Handles :
       /\ (Set(h) /\ ~aborted') =>
            /\ CurrentThreadRegistered(data_'[Main], index_[h])
            /\ Get(data_'[Main], index_[h]) = InitializeCb(h, Main)
       /\ \A w \in Workers :
            RunsSetOf(w, h) =>
              /\ CurrentThreadRegistered(data_'[w], index_[h])
              /\ Get(data_'[w], index_[h]) = InitializeCb(h, w)]_vars

\* C6 witness: after one set, the main thread and both workers each read the
\* value made for their own dispatcher.
C6_Witness ==
  \E h \in Handles :
    /\ hstate[h] = "live"
    /\ \A t \in Threads :
         /\ CurrentThreadRegistered(data_[t], index_[h])
         /\ Get(data_[t], index_[h]) = InitializeCb(h, t)

\* C7: a thread that has run shutdownThread reset its cells in strictly
\* descending index order, every cell it had among them, and holds no cell.
C7_ReverseTeardown ==
  \A t \in Threads :
    exited[t] =>
      /\ data_[t] = <<>>
      /\ \A k \in 1..Len(released[t]) :
           /\ released[t][k] \in 0..(Len(released[t]) - 1)
           /\ k > 1 => released[t][k] < released[t][k - 1]

\* C7 witness: a worker has torn down two or more cells.
C7_Witness ==
  \E w \in Workers : exited[w] /\ Len(released[w]) >= 2 /\ data_[w] = <<>>

\* C8: on every thread that has not been torn down, the cell of a live handle B
\* that is the first owner of its index holds the value last written through B
\* (empty when none was), whatever was done through other handles: destroyed,
\* their index reallocated, the new handle set.
C8_OtherSlotsUntouched ==
  \A b \in Handles :
    (hstate[b] = "live" /\ FirstOwner(b)) =>
       \A t \in Threads : ~exited[t] => Cell(t, index_[b]) = lastVal[t][b]

\* C8 witness: A destroyed, its index reallocated to C, C set and delivered,
\* while B on another index still reads its own value on the main thread and
\* on the worker.
C8_Witness ==
  \E a \in Handles, b \in Handles, c \in Handles :
    /\ hstate[a] = "dead" /\ hstate[b] = "live" /\ hstate[c] = "live"
    /\ a < c /\ index_[c] = index_[a] /\ index_[b] # index_[a]
    /\ FirstOwner(b)
    /\ \A t \in {Main, 1} :
         /\ Cell(t, index_[b]) = InitializeCb(b, t)
         /\ Cell(t, index_[c]) = InitializeCb(c, t)

\* C9 as stated: the lifecycle state changes only from Initializing to Running
\* and from Running to Shutdown.
C9_OnlyTwoTransitions ==
  [][state_' # state_ =>
       \/ (state_ = "Initializing" /\ state_' = "Running")
       \/ (state_ = "Running" /\ state_' = "Shutdown")]_vars

\* C9 amended: the lifecycle state never regresses and changes only from
\* Initializing to Running, from Running to Shutdown, or from Initializing
\* straight to Shutdown; nothing leaves Shutdown.
C9_MonotonicLifecycle ==
  [][state_' # state_ =>
       \/ (state_ = "Initializing" /\ state_' = "Running")
       \/ (state_ = "Running" /\ state_' = "Shutdown")
       \/ (state_ = "Initializing" /\ state_' = "Shutdown")]_vars

\* C9 witness: the registry is Shutdown after having been Initializing and
\* Running (a destructor ran in each).
C9_Witness ==
  /\ state_ = "Shutdown"
  /\ \E h \in Handles : destroyedIn[h] = "Initializing"
  /\ \E h \in Handles : destroyedIn[h] = "Running"

\* The index in the free list that was freed earliest.
OldestFreed ==
  CHOOSE i \in 0..(MaxHandles - 1) :
    /\ InFreeList(i)
    /\ \A j \in 0..(MaxHandles - 1) : InFreeList(j) => freedAt[i] <= freedAt[j]

\* C10: allocateSlot binds the new handle to the index freed earliest when the
\* free list is not empty, leaving slots_ at its length, and otherwise to the
\* length of slots_, which grows by one; slots_ never grows in any other step.
C10_FifoReuse ==
  [][/\ \A h \in Handles :
          Allocates(h) =>
            IF free_slot_indexes_ # <<>>
            THEN /\ index_'[h] = OldestFreed
                 /\ Len(slots_') = Len(slots_)
                 /\ \A k \in 1..Len(free_slot_indexes_') :
                      free_slot_indexes_'[k] # index_'[h]
            ELSE /\ index_'[h] = Len(slots_)
                 /\ Len(slots_') = Len(slots_) + 1
     /\ Len(slots_') # Len(slots_) =>
          /\ free_slot_indexes_ = <<>>
          /\ \E h \in Handles : Allocates(h)]_vars

\* C10 witness: with indexes 1 and 0 freed in that order, the next handle was
\* bound to index 1 and index 0 is still free.
C10_Witness ==
  \E h \in Handles :
    /\ hstate[h] = "live" /\ index_[h] = 1
    /\ InFreeList(0)
    /\ freedAt[1] > 0 /\ freedAt[1] < freedAt[0]

\* A write made through a handle bound to h's index has been applied on thread t.
WriteApplied(t, h) ==
  \E q \in Handles :
    hstate[q] # "unalloc" /\ index_[q] = index_[h] /\ lastVal[t][q] # Null

\* A write made through a handle bound to h's index or to a higher one has been
\* applied on thread t.
CoveringWriteApplied(t, h) ==
  \E q \in Handles :
    hstate[q] # "unalloc" /\ index_[q] >= index_[h] /\ lastVal[t][q] # Null

\* This step is thread t running an update lambda of handle h (posted directly
\* or held by a completion guard): the lambda calls h's get().
RunsUpdateOf(t, h) ==
  /\ queue[t] # <<>>
  /\ Inner(Head(queue[t])).kind = "upd" /\ Inner(Head(queue[t])).h = h
  /\ Run(t)

\* C11 as stated: get() through a live handle passes its check on a thread only
\* when a write for that handle's slot has been applied on that thread.
C11_GetNeedsOwnWrite ==
  \A t \in Threads, h \in Handles :
    (hstate[h] = "live" /\ CurrentThreadRegistered(data_[t], index_[h])) =>
       WriteApplied(t, h)

\* C11 amended: get() through a handle passes its check on a thread only when a
\* write for that slot or for a slot of a higher index has been applied on that
\* thread and the thread has not been torn down; and an update lambda whose get()
\* does not pass the check ends the process without touching the thread's cells.
C11_GetNeedsCoveringWrite ==
  /\ [](\A t \in Threads, h \in Handles :
          (hstate[h] # "unalloc" /\ CurrentThreadRegistered(data_[t], index_[h])) =>
             (CoveringWriteApplied(t, h) /\ ~exited[t]))
  /\ [][\A t \in Threads, h \in Handles :
          (/\ hstate[h] # "dead"
           /\ ~CurrentThreadRegistered(data_[t], index_[h])
           /\ RunsUpdateOf(t, h)) => (aborted' /\ data_' = data_)]_vars

\* C11 witness: get() through a live handle passes its check on a worker on
\* which nothing was ever written for that handle's slot.
C11_Witness ==
  \E w \in Workers, h \in Handles :
    /\ hstate[h] = "live"
    /\ CurrentThreadRegistered(data_[w], index_[h])
    /\ ~WriteApplied(w, h)
    /\ Get(data_[w], index_[h]) = Null

\* This step is a call of allocateSlot, registerThread, SlotImpl::set or one of
\* the two forms of SlotImpl::runOnAllThreads.
ClientCall ==
  \/ AllocateSlot
  \/ RegisterMainThread
  \/ \E d \in Workers : RegisterWorkerThread(d)
  \/ \E h \in Handles : Set(h)
  \/ \E h \in Handles : SlotRunOnAllThreads(h)
  \/ \E h \in Handles : SlotRunOnAllThreadsComplete(h)

\* C12: a call of allocateSlot, registerThread, set or either broadcast form
\* made in the Shutdown state is a fatal precondition failure, and slots_, the
\* free list, the registered dispatchers, every dispatcher's queue and every
\* thread's cells are as they were before the call.
C12_FatalInShutdown ==
  [][(state_ = "Shutdown" /\ ClientCall) =>
       /\ fatal' = "precondition"
       /\ UNCHANGED <<slots_, free_slot_indexes_, registered_threads_, queue,
                      data_>>]_vars

\* C12 witness: a call failed its precondition in the Shutdown state while a
\* handle was live, an index was free and callbacks were queued on a worker.
C12_Witness ==
  /\ fatal = "precondition" /\ state_ = "Shutdown"
  /\ \E h \in Handles : hstate[h] = "live"
  /\ free_slot_indexes_ # <<>>
  /\ \E w \in Workers : queue[w] # <<>>

\* C13 as stated: in every reachable state every free index has a null slot,
\* and every non-null slot refers to a handle that is live (allocated, its
\* destructor not returned) and whose index_ is the slot's index.
C13_SlotsAndFreeListAgree ==
  \A i \in 0..(Len(slots_) - 1) :
    /\ InFreeList(i) => slots_[i + 1] = NoHandle
    /\ slots_[i + 1] # NoHandle =>
          (Live(slots_[i + 1]) /\ index_[slots_[i + 1]] = i)

\* C13 amended: every free index is inside slots_ and has a null slot; every
\* non-null slot refers to a handle whose index_ is the slot's index, and that
\* handle is live unless it was destroyed in the Shutdown state, where removal
\* leaves its slot as it was.
C13_SlotsAgreeUntilShutdown ==
  /\ \A k \in 1..Len(free_slot_indexes_) : free_slot_indexes_[k] < Len(slots_)
  /\ \A i \in 0..(Len(slots_) - 1) :
       /\ InFreeList(i) => slots_[i + 1] = NoHandle
       /\ slots_[i + 1] # NoHandle =>
             /\ index_[slots_[i + 1]] = i
             /\ \/ Live(slots_[i + 1])
                \/ /\ state_ = "Shutdown"
                   /\ hstate[slots_[i + 1]] = "dead"
                   /\ destroyedIn[slots_[i + 1]] = "Shutdown"

\* C13 witness: in the Shutdown state one index is free with a null slot, one
\* slot refers to a live handle and one to a handle destroyed after shutdown
\* began.
C13_Witness ==
  /\ state_ = "Shutdown"
  /\ \E i \in 0..(Len(slots_) - 1) : InFreeList(i) /\ slots_[i + 1] = NoHandle
  /\ \E i \in 0..(Len(slots_) - 1) :
       slots_[i + 1] # NoHandle /\ hstate[slots_[i + 1]] = "live"
  /\ \E i \in 0..(Len(slots_) - 1) :
       slots_[i + 1] # NoHandle /\ hstate[slots_[i + 1]] = "dead"

\* This step is ~SlotImpl of handle h calling removeSlot.
CallsRemoveSlot(h) ==
  hstate[h] \in {"live", "awaiting"} /\ hstate'[h] \in {"removing", "dead"}

\* C14: removeSlot called in the Shutdown state leaves slots_, the free list,
\* every dispatcher's queue and every thread's cells as they were; called in
\* Initializing or Running it nulls slots_[index], appends index to the free
\* list, posts a clear of cell index to every registered worker's dispatcher
\* (and to no other queue) and clears the main thread's cell index before the
\* destructor returns.
C14_RemovalNoopInShutdown ==
  /\ [][\A h \in Handles :
          CallsRemoveSlot(h) =>
            IF state_ = "Shutdown"
            THEN /\ UNCHANGED <<slots_, free_slot_indexes_, queue, data_>>
                 /\ hstate'[h] = "dead"
            ELSE /\ slots_'[index_[h] + 1] = NoHandle
                 /\ free_slot_indexes_' = Append(free_slot_indexes_, index_[h])
                 /\ \A d \in Threads :
                      queue'[d] =
                        IF IsRegistered(d)
                        THEN Append(queue[d],
                                    Cb("clear", NoHandle, index_[h], NoDispatcher, 0))
                        ELSE queue[d]
                 /\ hstate'[h] = "removing"
                 /\ mainpc'.op = "bcast" /\ mainpc'.cb.kind = "clear"
                 /\ mainpc'.cb.idx = index_[h]]_vars
  /\ [][\A h \in Handles :
          (hstate[h] = "removing" /\ hstate'[h] = "dead") =>
            /\ Cell(Main, index_[h])' = Null
            /\ Len(data_'[Main]) = Len(data_[Main])]_vars

\* C14 witness: one handle was destroyed while Running with two workers
\* registered, its index free; another was destroyed after shutdown began, its
\* slot left bound.
C14_Witness ==
  \E a \in Handles, b \in Handles :
    /\ hstate[a] = "dead" /\ destroyedIn[a] = "Running"
    /\ InFreeList(index_[a])
    /\ hstate[b] = "dead" /\ destroyedIn[b] = "Shutdown"
    /\ slots_[index_[b] + 1] = b
    /\ NumRegistered = 2

\* This step is worker w running the copy of cb that the fire-and-forget
\* broadcast now in progress posted to it: the broadcast's copy is the last one
\* in the worker's queue, so it is the head only when no other copy follows.
ExecutesBroadcastCopy(w) ==
  /\ mainpc.op = "bcast"
  /\ IsRegistered(w)
  /\ queue[w] # <<>>
  /\ Head(queue[w]) = mainpc.cb
  /\ \A k \in 2..Len(queue[w]) : queue[w][k] # mainpc.cb
  /\ Run(w)

\* C15 as stated: in InstanceImpl::runOnAllThreads(cb) no worker runs its copy
\* of cb before the main thread has finished running cb.
C15_MainBeforeWorkers ==
  [][\A w \in Workers : ~ExecutesBroadcastCopy(w)]_vars

\* C15 amended: InstanceImpl::runOnAllThreads(cb) first posts cb to every
\* registered worker's dispatcher, the main thread's cells still untouched, and
\* then runs cb on the main thread before it returns, posting nothing more.
C15_PostThenMain ==
  /\ [][(mainpc.op # "bcast" /\ mainpc'.op = "bcast") =>
          /\ \A d \in Threads :
               queue'[d] = IF IsRegistered(d) THEN Append(queue[d], mainpc'.cb)
                           ELSE queue[d]
          /\ data_' = data_]_vars
  /\ [][(mainpc.op = "bcast" /\ mainpc'.op # "bcast") =>
          /\ queue' = queue
          /\ \A w \in Workers : data_'[w] = data_[w]
          /\ mainpc.cb.kind = "clear" =>
                data_'[Main] = ClearSlot(data_[Main], mainpc.cb.idx)
          /\ mainpc.cb.kind = "upd" =>
                IF CurrentThreadRegistered(data_[Main], index_[mainpc.cb.h])
                THEN data_'[Main] =
                       SetThreadLocal(data_[Main], index_[mainpc.cb.h],
                                      UpdateCb(Get(data_[Main], index_[mainpc.cb.h])))
                ELSE aborted']_vars

\* C15 witness: a worker has already applied the update of a fire-and-forget
\* broadcast that the main thread has not yet applied to its own cell.
C15_Witness ==
  /\ mainpc.op = "bcast" /\ mainpc.cb.kind = "upd"
  /\ Cell(Main, index_[mainpc.cb.h]) = InitializeCb(mainpc.cb.h, Main)
  /\ \E w \in Workers :
       /\ IsRegistered(w)
       /\ Cell(w, index_[mainpc.cb.h]) = UpdateCb(InitializeCb(mainpc.cb.h, w))

\* This step drops the last copy of handle h's token in the Running state: the
\* deleter takes shutdown_mutex_ and sets ready_to_destroy_.
DeleterSignalsFor(h) == use_count[h] > 0 /\ use_count'[h] = 0 /\ DeleterSignals

\* C19: whenever the deleter of a handle's token takes the handle's mutex and
\* sets ready_to_destroy_, the handle's destructor has not yet returned.
C19_DeleterTouchesLiveHandle ==
  [][\A h \in Handles : DeleterSignalsFor(h) => hstate[h] # "dead"]_vars

\* The reference the handle itself holds on its token: still_alive_, until the
\* destructor resets it.
OwnReference(h) == IF hstate[h] = "live" THEN 1 ELSE 0

\* The copies of handle h's token held by wrapped callbacks: those queued on a
\* dispatcher, the one each unreleased cb_guard holds, and the one the main
\* thread holds while it is inside a fire-and-forget broadcast of h.
CallbackCopies(h) ==
  Cardinality({p \in Threads \X (1..(2 * MaxHandles + 2)) :
                 /\ p[2] <= Len(queue[p[1]])
                 /\ Wrapped(queue[p[1]][p[2]])
                 /\ queue[p[1]][p[2]].h = h})
  + Cardinality({g \in Guards : guards[g].cb.h = h /\ guards[g].refs > 0})
  + (IF mainpc.op = "bcast" /\ Wrapped(mainpc.cb) /\ mainpc.cb.h = h THEN 1 ELSE 0)

\* C18: the use count of a handle's token is the handle's own reference (one
\* until the destructor resets it) plus the wrapped-callback copies queued,
\* executing or held by a completion guard; while a wrapped callback is queued
\* the count is above the handle's own reference; and ready_to_destroy_ is set
\* only when the count is zero.
C18_TokenCountsCopies ==
  \A h \in Handles :
    /\ use_count[h] = OwnReference(h) + CallbackCopies(h)
    /\ InFlight(h) => use_count[h] > OwnReference(h)
    /\ ready_to_destroy_[h] => use_count[h] = 0
    /\ \A t \in Threads : Len(queue[t]) <= 2 * MaxHandles + 2

\* C18 witness: a live handle's token is held by the handle, by a set lambda
\* queued on each worker and by a completion guard whose lambdas are queued.
C18_Witness ==
  \E h \in Handles, g \in Guards :
    /\ hstate[h] = "live" /\ use_count[h] = 4
    /\ guards[g].cb.h = h /\ guards[g].refs = 2
    /\ \A w \in Workers : \E k \in 1..Len(queue[w]) :
         queue[w][k].kind = "set" /\ queue[w][k].h = h

\* This step applies a write of set() on handle c to thread t's cell: set itself
\* on the main thread, the lambda set posted on a worker.
AppliesSetOf(t, c) == IF t = Main THEN Set(c) /\ NotShutdown ELSE RunsSetOf(t, c)

\* C16: when handle c holds a reused index, each thread applies the clear the
\* earlier owner's removal broadcast before c's first write, so that the write
\* finds the cell empty (or holding c's own earlier value), never an earlier
\* owner's; and from then on, while c is live and the thread not torn down, the
\* cell holds what was last written through c: no clear and no write of an
\* earlier owner comes after it.
C16_ClearBeforeReuseWrite ==
  /\ [][\A c \in Handles, t \in Threads :
          (AppliesSetOf(t, c) /\ ~FirstOwner(c)) =>
             /\ Cell(t, index_[c]) \in {Null, InitializeCb(c, t)}
             /\ Cell(t, index_[c])' = InitializeCb(c, t)]_vars
  /\ [](\A c \in Handles, t \in Threads :
          (/\ hstate[c] = "live" /\ ~FirstOwner(c)
           /\ lastVal[t][c] # Null /\ ~exited[t]) =>
             Cell(t, index_[c]) = lastVal[t][c])

\* C16 witness: an index whose first owner's value reached the worker was freed
\* and reused, and the new handle's value is in place on the main thread and on
\* the worker, whose queue is drained.
C16_Witness ==
  \E a \in Handles, c \in Handles :
    /\ a < c /\ hstate[a] = "dead" /\ hstate[c] = "live"
    /\ index_[a] = index_[c]
    /\ lastVal[1][a] = InitializeCb(a, 1)
    /\ queue[1] = <<>>
    /\ \A t \in {Main, 1} : Cell(t, index_[c]) = InitializeCb(c, t)

\* C17: under weak fairness of every worker's dispatcher (and of the main
\* thread's own progress), a destructor that waits in the Running state
\* eventually returns, as long as the process runs (a process ended by a failed
\* ASSERT or a crash drains no queue); and while it waits, ready_to_destroy_ is
\* set exactly when no copy of the token is left.
C17_RunningDestroyReturns ==
  /\ \A h \in Handles :
       (hstate[h] = "awaiting") ~> (hstate[h] = "dead" \/ aborted)
  /\ [](\A h \in Handles :
          hstate[h] = "awaiting" =>
            /\ state_ = "Running"
            /\ ready_to_destroy_[h] <=> use_count[h] = 0)

\* C17 witness: a destructor waits in the Running state for the last lambda of
\* a completion guard, which one worker has still to run.
C17_Witness ==
  \E h \in Handles, g \in Guards :
    /\ state_ = "Running" /\ hstate[h] = "awaiting"
    /\ ~ready_to_destroy_[h] /\ use_count[h] = 1
    /\ guards[g].cb.h = h /\ guards[g].refs = 1

\* Value v is empty or was made by a set() on handle c.
OwnOrEmpty(v, c) == v.h \in {NoHandle, c}

\* C20: what get() returns through a handle is empty or a value written
\* through that handle, never a value written through an earlier handle that
\* owned the index: on the main thread in every state in which the handle is
\* live, and on a worker whenever it runs an update lambda posted through the
\* handle, whose get() passes its check.
C20_NoLeakAcrossGenerations ==
  /\ [](\A c \in Handles :
          (hstate[c] = "live" /\ CurrentThreadRegistered(data_[Main], index_[c])) =>
             OwnOrEmpty(Get(data_[Main], index_[c]), c))
  /\ [][\A c \in Handles, w \in Workers :
          (RunsUpdateOf(w, c) /\ CurrentThreadRegistered(data_[w], index_[c])) =>
             OwnOrEmpty(Get(data_[w], index_[c]), c)]_vars

\* C20 witness: the first owner's value had reached the worker; the index was
\* freed and reused; an update posted through the new handle, which was never
\* set, has run on the worker and left the cell empty.
C20_Witness ==
  \E a \in Handles, c \in Handles :
    /\ a < c /\ hstate[a] = "dead" /\ hstate[c] = "live"
    /\ index_[a] = index_[c]
    /\ lastVal[1][a] = InitializeCb(a, 1)
    /\ use_count[c] = 1 /\ ncalls = GenCalls /\ mainpc = Idle
    /\ \A q \in Handles : (q > a /\ q # c) => hstate[q] = "unalloc"
    /\ \A t \in {Main, 1} :
         CurrentThreadRegistered(data_[t], index_[c]) /\ Cell(t, index_[c]) = Null
    /\ lastVal[Main][c] = Null /\ IsRegistered(1) /\ queue[1] = <<>>
    /\ ~aborted
====
